---- MODULE Spec2Model ----
(***************************************************************************)
(* ftree: an N-dimensional subdividing tree (NTree) with per-node          *)
(* sync.RWMutex, concurrent Add, Search and Iter.                          *)
(*                                                                         *)
(* Numbers.  Coordinates, centers and bounds are float64 values.  The     *)
(* model works in the subnormal range of float64: every value is an        *)
(* integer multiple of the unit u = 2^-1074 (the smallest positive         *)
(* float64) and is written as that integer.  In this range float64         *)
(* addition and subtraction are exact, and x / 2.0 is exact for even x     *)
(* and rounds half to even for odd x (so 1u / 2.0 = 0).  A tree            *)
(* New([0], [4u]) is a tree the program accepts.                           *)
(*                                                                         *)
(* Nodes.  A node is named by its path from the root (the sequence of      *)
(* child indices); the heap of allocated nodes is the function nodes.      *)
(***************************************************************************)
EXTENDS Integers, Sequences, FiniteSets, TLC

VARIABLES
    nodes,    \* path -> NTree fields (center, bounds, p, children, count)
    mutex,    \* path -> state of the node's sync.RWMutex
    stack,    \* worker -> call stack (sequence of frames, top is last)
    ret,      \* the call that returned last and its value, until the next call is issued
    status,   \* point -> "unused" | "inflight" | "ok" | "err" (history of Add)
    fresh,    \* worker -> no Add has been in flight since the worker's Search or Iter began
    calls,    \* number of calls issued so far
    overlap,  \* history: some Add was called while another Add was in flight
    failed,   \* history: the occupied leaves whose split failed, as they were before
    lost,     \* history: the points a split took out of its node and failed to re-add
    hist      \* history, kept where on is set: worker -> for its Search, the points
              \* whose Add had returned nil when it was called (known), and, as the
              \* Search took the root's read lock, the points the split of the root
              \* had out of the tree (moved) and the points lost (lost)

vars == <<nodes, mutex, stack, ret, status, fresh, calls, overlap, failed, lost, hist>>

\* ---------------------------------------------------------------- bounds
RootExp == 2
MaxCalls == 4

\* Two goroutines issue the calls.
Workers == {1, 2}

\* ------------------------------------------------------------- constants
MaxN == 63

\* ---------------------------------------------------------------- inputs
RootCenter == <<0, 0>>
RootBound == 2 ^ RootExp
RootBounds == [j \in 1..Len(RootCenter) |-> RootBound]

\* Coordinates of the points offered to Add: odd dimensions from PointA, even
\* dimensions from PointB.  Points 1 and 2 are distinct but fall into the same
\* child at every split down to the cells of half-extent 1u, like two points
\* with equal coordinates; points 1 and 3 part at the second split.
PointA == <<-1, 0, -3, 3>>
PointB == <<-1, 0, -1, -2>>
NumPoints == Len(PointA)

NilPoint == 0                    \* the nil *Point
ValidPoints == 1..NumPoints
BadDimPoint == NumPoints + 1     \* a point with one coordinate too many
OutPoint == NumPoints + 2        \* a point outside the root's bounds
AddInputs == ValidPoints \cup {NilPoint, BadDimPoint, OutPoint}

Root == <<>>
NilNode == <<-1>>                \* the nil *NTree

\* The points are made for the tree they are offered to: Coords has as many
\* entries as the root has dimensions (one more for BadDimPoint).
Coords(p) ==
    IF p \in ValidPoints
      THEN [j \in 1..Len(nodes[Root].center) |-> IF j % 2 = 1 THEN PointA[p] ELSE PointB[p]]
    ELSE IF p = BadDimPoint
      THEN [j \in 1..(Len(nodes[Root].center) + 1) |-> 0]
    ELSE [j \in 1..Len(nodes[Root].center) |-> RootBound + 1]

\* Search boxes: 1 is the root's full volume, 2 is [-3,-1] in the odd and [-1,0]
\* in the even dimensions (ends coincide with coordinates of points), 3 has p1
\* one entry too long.
FullQuery == 1
PartQuery == 2
BadQuery == 3
Queries == {FullQuery, PartQuery, BadQuery}
QueryP1(q) ==
    IF q = FullQuery THEN [j \in 1..Len(RootCenter) |-> RootCenter[j] - RootBounds[j]]
    ELSE IF q = PartQuery THEN [j \in 1..Len(RootCenter) |-> IF j % 2 = 1 THEN -3 ELSE -1]
    ELSE [j \in 1..(Len(RootCenter) + 1) |-> -3]
QueryP2(q) ==
    IF q = FullQuery THEN [j \in 1..Len(RootCenter) |-> RootCenter[j] + RootBounds[j]]
    ELSE [j \in 1..Len(RootCenter) |-> IF j % 2 = 1 THEN -1 ELSE 0]

\* ------------------------------------------------------------ error values
ErrNone == "nil"
ErrNilPoint == "Point is nil"
ErrPointDim == "Point dimension mismatch"
ErrOutside == "Point doesn't fall within bounds of NTree."
ErrMaxN == "64 bit ints limit this library to <= 63 dimensions"
ErrLengths == "center and bounds have mismatched lengths"
ErrZeroDim == "Can't have 0-dimensional ntree"
ErrBoundSize == "Dimension has bounding size <= 0."
ErrSearchDim == "Bounding points have different dimensions than tree."

\* A returned value: the error, and for Search and Iter the collected sequence.
Val(err, points) == [err |-> err, points |-> points]
NoVal == Val("none", <<>>)

\* ------------------------------------------------------------- geometry
\* float64 x / 2.0 in units of 2^-1074: exact for even x, half-to-even for odd x.
Half(x) ==
    IF x % 2 = 0 THEN x \div 2
    ELSE LET k == (x - 1) \div 2 IN IF k % 2 = 0 THEN k ELSE k + 1

\* n >> pos, for n >= 0
RECURSIVE shr(_, _)
shr(n, pos) == IF pos = 0 \/ n = 0 THEN n ELSE shr(n \div 2, pos - 1)

\* val := n & (1 << pos); return val > 0
hasBit(n, pos) == (shr(n, pos) % 2) = 1

\* n |= (1 << pos)
setBit(n, pos) == IF hasBit(n, pos) THEN n ELSE n + 2 ^ pos

\* mathutil.ModPowUint64(2, n, MaxInt): 2^n mod (2^63 - 1).  Since
\* 2^63 = 1 mod (2^63 - 1), this is 2^(n mod 63).
ChildSlots(n) == 2 ^ (n % MaxN)

\* New that lets a bound of 0 pass (mutant).
NewErrZeroBound(center, bounds) ==
    IF Len(center) > MaxN THEN ErrMaxN
    ELSE IF Len(center) # Len(bounds) THEN ErrLengths
    ELSE IF Len(center) = 0 THEN ErrZeroDim
    ELSE IF \E i \in 1..Len(bounds) : bounds[i] < 0 THEN ErrBoundSize
    ELSE ErrNone

\* New(center, bounds): the error it returns, or ErrNone.
NewErr(center, bounds) ==
    IF Len(center) > MaxN THEN ErrMaxN
    ELSE IF Len(center) # Len(bounds) THEN ErrLengths
    ELSE IF Len(center) = 0 THEN ErrZeroDim
    ELSE IF \E i \in 1..Len(bounds) : bounds[i] <= 0 THEN ErrBoundSize
    ELSE ErrNone

\* The node New returns on success.
NewNode(center, bounds) ==
    [center |-> center, bounds |-> bounds, p |-> NilPoint, children |-> <<>>, count |-> 0]

\* N(): the number of dimensions.
N(node) == Len(node.center)

\* Bounds and center of child i (0-based) of a node, as the split computes them.
ChildBounds(node, i) == [j \in 1..Len(node.center) |-> Half(node.bounds[j])]
ChildCenter(node, i) ==
    [j \in 1..Len(node.center) |->
        IF hasBit(i, j - 1) THEN node.center[j] + Half(node.bounds[j])
        ELSE node.center[j] - Half(node.bounds[j])]

\* The bounds test with the upper end left out (mutant).
InBoundsOpen(node, c) ==
    \A i \in 1..Len(c) :
        ~((node.center[i] - node.bounds[i]) > c[i] \/ (node.center[i] + node.bounds[i]) <= c[i])

\* The bounds test of Contains.
InBounds(node, c) ==
    \A i \in 1..Len(c) :
        ~((node.center[i] - node.bounds[i]) > c[i] \/ (node.center[i] + node.bounds[i]) < c[i])

\* Contains with the bounds test left out (mutant).
ContainsNoBounds(node, p) ==
    IF p = NilPoint THEN [in |-> FALSE, err |-> ErrNilPoint]
    ELSE IF Len(Coords(p)) # Len(node.center) THEN [in |-> FALSE, err |-> ErrPointDim]
    ELSE [in |-> TRUE, err |-> ErrNone]

\* Contains(p): [in, err].
Contains(node, p) ==
    IF p = NilPoint THEN [in |-> FALSE, err |-> ErrNilPoint]
    ELSE IF Len(Coords(p)) # Len(node.center) THEN [in |-> FALSE, err |-> ErrPointDim]
    ELSE [in |-> InBounds(node, Coords(p)), err |-> ErrNone]

\* The child index Add descends into: bit j set iff p.Coords[j] > center[j].
RECURSIVE TargetFrom(_, _, _, _)
TargetFrom(node, c, j, target) ==
    IF j >= Len(node.center) THEN target
    ELSE TargetFrom(node, c, j + 1,
                    IF c[j + 1] > node.center[j + 1] THEN setBit(target, j) ELSE target)
Target(node, p) == TargetFrom(node, Coords(p), 0, 0)

\* target < len(nt.children), the run-time check of nt.children[target].  The
\* slice has 2^k entries, k = N mod 63 (ChildSlots), and target is the sum of
\* 2^j over the dimensions j with p.Coords[j] > center[j]: it is below 2^k iff
\* every such j is below k.
IndexInRange(node, p) ==
    \A j \in 1..Len(node.center) :
        Coords(p)[j] > node.center[j] => j - 1 < Len(node.center) % MaxN

\* The leaf test with the upper end excluded (mutant).
LeafMatchStrict(c, p1, p2) == \A i \in 1..Len(c) : ~(c[i] < p1[i] \/ c[i] >= p2[i])

\* The leaf test of Search: the point lies in [p1, p2], ends included.
LeafMatch(c, p1, p2) == \A i \in 1..Len(c) : ~(c[i] < p1[i] \/ c[i] > p2[i])

\* ------------------------------------------------------------ sync.RWMutex
\* writer: "free", "pending" (Lock called, waiting for the readers to leave),
\* "held".  A pending or holding writer blocks new readers.
FreeMutex == [writer |-> "free", readers |-> 0]
CanRLock(nt) == mutex[nt].writer = "free"
HeldMutex == [writer |-> "held", readers |-> 0]
CanLock(nt) == mutex[nt].writer = "free"

\* ------------------------------------------------------------- call stacks
Frame(op, nt, arg, pc) ==
    [op |-> op, nt |-> nt, arg |-> arg, pc |-> pc, cur |-> NilPoint, i |-> 0,
     acc |-> <<>>, rv |-> NoVal]

Busy(w) == stack[w] # <<>>
Top(w) == stack[w][Len(stack[w])]
At(w, op, pc) == Busy(w) /\ Top(w).op = op /\ Top(w).pc = pc
InAdd(w) == Busy(w) /\ stack[w][1].op = "Add"
AddInFlight == \E w \in Workers : InAdd(w)
\* Goroutines are interchangeable: a new call runs on the lowest idle worker.
CanCall(w) == ~Busy(w) /\ \A v \in Workers : v < w => Busy(v)

\* The stack after the top frame advances to f.
WithTop(s, f) == [s EXCEPT ![Len(s)] = f]
\* The stack after the top frame returns v to its caller.
Returned(s, v) ==
    LET rest == SubSeq(s, 1, Len(s) - 1)
    IN IF rest = <<>> THEN rest ELSE [rest EXCEPT ![Len(rest)].rv = v]

NoHist(on) == [on |-> on, known |-> {}, moved |-> {}, lost |-> {}]

\* The points the split of node nt has taken out of it (curP := nt.p;
\* nt.p = nil; Unlock) and whose re-add nt.Add(curP) has not stored them yet.
Displaced(nt) ==
    {p \in ValidPoints :
        /\ \E w \in Workers : \E k \in 1..Len(stack[w]) :
              /\ stack[w][k].op = "Add" /\ stack[w][k].pc = "ret_cur"
              /\ stack[w][k].nt = nt /\ stack[w][k].cur = p
        /\ \A n \in DOMAIN nodes : nodes[n].p # p}

\* The history of w's Search: at the step in which the Search takes the read
\* lock of the root it is called on, the points that are out of the tree.
Seen(w) ==
    IF hist[w].on /\ Len(stack[w]) = 1 /\ stack[w][1].op = "Search" /\ stack[w][1].pc = "rlock"
      THEN [hist[w] EXCEPT !.moved = Displaced(stack[w][1].nt), !.lost = lost]
      ELSE hist[w]

\* The top frame of w returns v: to its caller, or out of the call.
Return(w, v) ==
    LET f == stack[w][1] IN
    /\ stack' = [stack EXCEPT ![w] = Returned(@, v)]
    /\ IF Len(stack[w]) = 1
         THEN /\ ret' = [op |-> f.op, nt |-> f.nt, arg |-> f.arg, val |-> v, fresh |-> fresh[w],
                         known |-> Seen(w).known, moved |-> Seen(w).moved,
                         lost |-> Seen(w).lost]
              /\ fresh' = [fresh EXCEPT ![w] = FALSE]
              /\ hist' = [hist EXCEPT ![w] = NoHist(@.on)]
              /\ status' = IF f.op = "Add" /\ f.arg \in ValidPoints
                             THEN [status EXCEPT ![f.arg] = IF v.err = ErrNone THEN "ok" ELSE "err"]
                             ELSE status
         ELSE UNCHANGED <<ret, status, fresh, hist>>

NoRet ==
    [op |-> "none", nt |-> Root, arg |-> 0, val |-> NoVal, fresh |-> FALSE,
     known |-> {}, moved |-> {}, lost |-> {}]

\* ------------------------------------------------------------------- Init
\* The state after nt, err := New(RootCenter, RootBounds).
InitTree ==
    /\ nodes = (Root :> NewNode(RootCenter, RootBounds))
    /\ mutex = (Root :> FreeMutex)
    /\ stack = [w \in Workers |-> <<>>]
    /\ ret = NoRet
    /\ status = [p \in ValidPoints |-> "unused"]
    /\ fresh = [w \in Workers |-> FALSE]
    /\ calls = 0
    /\ overlap = FALSE
    /\ failed = {}
    /\ lost = {}

Init ==
    /\ InitTree
    /\ hist = [w \in Workers |-> NoHist(FALSE)]

\* A second tree, whose bounds do not halve exactly: nt, err :=
\* New(OddCenter, OddBounds).  Its children have bounds 5u / 2.0 = 2u and cover
\* center +- 4u only.
OddCenter == <<-2, -2>>
OddBounds == <<5, 5>>
ObsRoots == {NewNode(RootCenter, RootBounds), NewNode(OddCenter, OddBounds)}

\* The state after New returned one of the two trees, with the history of the
\* Searches kept.
ObsInit ==
    /\ \E root \in ObsRoots :
          /\ NewErr(root.center, root.bounds) = ErrNone
          /\ nodes = (Root :> root)
    /\ mutex = (Root :> FreeMutex)
    /\ stack = [w \in Workers |-> <<>>]
    /\ ret = NoRet
    /\ status = [p \in ValidPoints |-> "unused"]
    /\ fresh = [w \in Workers |-> FALSE]
    /\ calls = 0
    /\ overlap = FALSE
    /\ failed = {}
    /\ lost = {}
    /\ hist = [w \in Workers |-> NoHist(TRUE)]

\* ------------------------------------------------------------------- Add
\* A worker calls Add(p) on the root with a point not offered before.
CallAdd(w, p) ==
    /\ CanCall(w)
    /\ calls < MaxCalls
    /\ calls' = calls + 1
    /\ p \in ValidPoints => status[p] = "unused"
    /\ stack' = [stack EXCEPT ![w] = <<Frame("Add", Root, p, "contains")>>]
    /\ ret' = NoRet
    /\ status' = IF p \in ValidPoints THEN [status EXCEPT ![p] = "inflight"] ELSE status
    /\ fresh' = [v \in Workers |-> FALSE]
    /\ overlap' = (overlap \/ AddInFlight)
    /\ UNCHANGED <<nodes, mutex, failed, lost, hist>>

\* in, err := nt.Contains(p) and the two early returns.
AddContains(w) ==
    /\ At(w, "Add", "contains")
    /\ LET f == Top(w)
           c == Contains(nodes[f.nt], f.arg)
       IN /\ CanRLock(f.nt)
          /\ IF c.err # ErrNone THEN Return(w, Val(c.err, <<>>))
             ELSE IF ~c.in THEN Return(w, Val(ErrOutside, <<>>))
             ELSE /\ stack' = [stack EXCEPT ![w] = WithTop(@, [f EXCEPT !.pc = "lock"])]
                  /\ UNCHANGED <<ret, status, fresh, hist>>
    /\ UNCHANGED <<nodes, mutex, failed, lost, calls, overlap>>

\* The children the split builds: index of the first child whose New fails
\* (the number of slots if none fails).
FirstFail(node) ==
    LET size == ChildSlots(Len(node.center))
        bad == {i \in 0..(size - 1) :
                    NewErr(ChildCenter(node, i), ChildBounds(node, i)) # ErrNone}
    IN IF bad = {} THEN size ELSE CHOOSE i \in bad : \A k \in bad : i <= k

\* The children slice after the loop ran up to (excluding) child stop.
SplitChildren(nt, node, stop) ==
    [i \in 1..ChildSlots(Len(node.center)) |-> IF i - 1 < stop THEN Append(nt, i - 1) ELSE NilNode]

\* The nodes the loop allocated.
SplitNodes(nt, node, stop) ==
    [c \in {Append(nt, i) : i \in 0..(stop - 1)} |->
        NewNode(ChildCenter(node, c[Len(c)]), ChildBounds(node, c[Len(c)]))]

\* The split without nt.count-- (mutant).
SplitParentNoDec(node, kids) == [node EXCEPT !.children = kids, !.p = NilPoint]

\* The split without nt.p = nil (mutant).
SplitParentKeepsPoint(node, kids) == [node EXCEPT !.children = kids, !.count = @ - 1]

\* What the split leaves in the node once the children are built:
\* nt.p = nil; nt.count--.
SplitParent(node, kids) == [node EXCEPT !.children = kids, !.p = NilPoint, !.count = @ - 1]

\* The node's mutex while Add is in the call into the child: the Unlock is
\* deferred to the return of this Add (defer nt.mutex.Unlock()).
WhileInChild == HeldMutex

\* The body of Add from nt.mutex.Lock() on, with the lock just acquired.
AddLocked(w) ==
    LET f == Top(w)
        nt == f.nt
        node == nodes[nt]
    IN
    IF node.p = NilPoint /\ node.children = <<>> THEN
        \* simplest case: store the point, count++, deferred Unlock
        /\ nodes' = [nodes EXCEPT ![nt].p = f.arg, ![nt].count = @ + 1]
        /\ mutex' = [mutex EXCEPT ![nt] = FreeMutex]
        /\ Return(w, Val(ErrNone, <<>>))
        /\ UNCHANGED <<failed, lost>>
    ELSE IF node.children # <<>> /\ ~IndexInRange(node, f.arg) THEN
        \* nt.children[target]: index out of range.  The panic unwinds the
        \* goroutine's stack, running the deferred Unlocks, and ends the program.
        /\ mutex' = [m \in DOMAIN mutex |->
                        IF m = nt \/ \E k \in 1..Len(stack[w]) :
                                        stack[w][k].nt = m /\ stack[w][k].pc = "ret_child"
                          THEN FreeMutex ELSE mutex[m]]
        /\ stack' = [stack EXCEPT ![w] = <<[@[1] EXCEPT !.pc = "panic"]>>]
        /\ UNCHANGED <<nodes, ret, status, fresh, hist, failed, lost>>
    ELSE IF node.children # <<>> THEN
        \* recurse into the child, the lock stays held (deferred Unlock)
        /\ node.children[Target(node, f.arg) + 1] # NilNode
        /\ mutex' = [mutex EXCEPT ![nt] = WhileInChild]
        /\ stack' = [stack EXCEPT ![w] =
                Append(WithTop(@, [f EXCEPT !.pc = "ret_child"]),
                       Frame("Add", node.children[Target(node, f.arg) + 1], f.arg, "contains"))]
        /\ UNCHANGED <<nodes, ret, status, fresh, hist, failed, lost>>
    ELSE
        \* occupied leaf: split
        LET stop == FirstFail(node)
            kids == SplitChildren(nt, node, stop)
            made == SplitNodes(nt, node, stop)
        IN
        IF stop < ChildSlots(Len(node.center)) THEN
            \* return err, with the children slice assigned and the lock held
            /\ nodes' = made @@ [nodes EXCEPT ![nt].children = kids]
            /\ mutex' = [c \in DOMAIN made |-> FreeMutex] @@
                        [mutex EXCEPT ![nt] = HeldMutex]
            /\ failed' = failed \cup {[nt |-> nt, before |-> node]}
            /\ UNCHANGED lost
            /\ Return(w, Val(NewErr(ChildCenter(node, stop), ChildBounds(node, stop)), <<>>))
        ELSE
            \* curP := nt.p; nt.p = nil; nt.count--; Unlock; nt.Add(curP)
            /\ nodes' = made @@ [nodes EXCEPT ![nt] = SplitParent(node, kids)]
            /\ mutex' = [c \in DOMAIN made |-> FreeMutex] @@ [mutex EXCEPT ![nt] = FreeMutex]
            /\ stack' = [stack EXCEPT ![w] =
                    Append(WithTop(@, [f EXCEPT !.pc = "ret_cur", !.cur = node.p]),
                           Frame("Add", nt, node.p, "contains"))]
            /\ UNCHANGED <<ret, status, fresh, hist, failed, lost>>

\* nt.mutex.Lock(): acquired at once when no reader holds the mutex, else the
\* writer is announced and waits.
AddLock(w) ==
    /\ At(w, "Add", "lock")
    /\ CanLock(Top(w).nt)
    /\ IF mutex[Top(w).nt].readers = 0
         THEN AddLocked(w)
         ELSE /\ mutex' = [mutex EXCEPT ![Top(w).nt].writer = "pending"]
              /\ stack' = [stack EXCEPT ![w] = WithTop(@, [Top(w) EXCEPT !.pc = "lockwait"])]
              /\ UNCHANGED <<nodes, ret, status, fresh, hist, failed, lost>>
    /\ UNCHANGED <<calls, overlap>>

\* The announced writer gets the lock when the last reader has left.
AddLockWait(w) ==
    /\ At(w, "Add", "lockwait")
    /\ mutex[Top(w).nt].readers = 0
    /\ AddLocked(w)
    /\ UNCHANGED <<calls, overlap>>

\* err = nt.children[target].Add(p) returned: count++ on success, Unlock, return.
AddAfterChild(w) ==
    /\ At(w, "Add", "ret_child")
    /\ LET f == Top(w) IN
        /\ nodes' = IF f.rv.err = ErrNone THEN [nodes EXCEPT ![f.nt].count = @ + 1] ELSE nodes
        /\ mutex' = [mutex EXCEPT ![f.nt] = FreeMutex]
        /\ Return(w, f.rv)
    /\ UNCHANGED <<failed, lost, calls, overlap>>

\* err = nt.Add(curP) returned: return err, or return nt.Add(p) (the call is
\* the last thing the frame does and no deferred call is pending in this branch,
\* so the frame is replaced by the callee's).  On the error return curP, which
\* the split took out of the node, has been stored nowhere and is dropped.
AddAfterCur(w) ==
    /\ At(w, "Add", "ret_cur")
    /\ LET f == Top(w) IN
        IF f.rv.err # ErrNone
          THEN /\ Return(w, f.rv)
               /\ lost' = lost \cup {f.cur}
          ELSE /\ stack' = [stack EXCEPT ![w] = WithTop(@, Frame("Add", f.nt, f.arg, "contains"))]
               /\ UNCHANGED <<ret, status, fresh, hist, lost>>
    /\ UNCHANGED <<nodes, mutex, failed, calls, overlap>>

\* ---------------------------------------------------------------- Search
\* A worker calls Search(p1, p2) on the root.
CallSearch(w, q) ==
    /\ CanCall(w)
    /\ calls < MaxCalls
    /\ calls' = calls + 1
    /\ stack' = [stack EXCEPT ![w] = <<Frame("Search", Root, q, "rlock")>>]
    /\ ret' = NoRet
    /\ fresh' = [fresh EXCEPT ![w] = ~AddInFlight]
    /\ hist' = [hist EXCEPT ![w] =
                    IF @.on THEN [NoHist(TRUE) EXCEPT
                                      !.known = {p \in ValidPoints : status[p] = "ok"}]
                    ELSE @]
    /\ UNCHANGED <<nodes, mutex, status, overlap, failed, lost>>

\* The inner loop over the dimensions of a child, from dimension i (0-based) on.
\* Its continue statement continues this inner loop, so a dimension in which
\* the child lies outside [p1, p2] only moves on to the next dimension; when
\* the loop ends, child.Search is called.  TRUE iff the child is left out.
RECURSIVE DimLoop(_, _, _, _)
DimLoop(child, p1, p2, i) ==
    IF i >= Len(p1) THEN FALSE
    ELSE LET s1 == child.center[i + 1] - child.bounds[i + 1]
             s2 == child.center[i + 1] + child.bounds[i + 1]
         IN IF (s1 < p1[i + 1] /\ s2 < p1[i + 1]) \/ (s1 > p2[i + 1] /\ s2 > p2[i + 1])
              THEN DimLoop(child, p1, p2, i + 1)
              ELSE DimLoop(child, p1, p2, i + 1)
Skipped(child, p1, p2) == DimLoop(child, p1, p2, 0)

\* The loop over the children stopping one child early (mutant).
SearchKidsDropLast(node, p1, p2) == SubSeq(node.children, 1, Len(node.children) - 1)

\* The children Search recurses into, in slice order.
SearchKids(node, p1, p2) ==
    SelectSeq(node.children, LAMBDA c : ~Skipped(nodes[c], p1, p2))

\* The node's mutex while Search runs on the children: the read lock taken on
\* entry is still held (defer nt.mutex.RUnlock()).
RLockedInChildren(m) == [m EXCEPT !.readers = @ + 1]

\* RLock, the length check, the leaf cases, or the start of the loop over the
\* children (the read lock stays held while Search runs on each of them).
SearchNode(w) ==
    /\ At(w, "Search", "rlock")
    /\ LET f == Top(w)
           node == nodes[f.nt]
           p1 == QueryP1(f.arg)
           p2 == QueryP2(f.arg)
       IN /\ CanRLock(f.nt)
          /\ IF Len(p1) # Len(p2) \/ Len(p2) # Len(node.center) THEN
                 /\ Return(w, Val(ErrSearchDim, <<>>))
                 /\ UNCHANGED mutex
             ELSE IF node.children = <<>> /\ node.p # NilPoint THEN
                 /\ Return(w, Val(ErrNone,
                        IF LeafMatch(Coords(node.p), p1, p2) THEN <<node.p>> ELSE <<>>))
                 /\ UNCHANGED mutex
             ELSE IF node.children # <<>> THEN
                 /\ \A k \in 1..Len(node.children) : node.children[k] # NilNode
                 /\ IF SearchKids(node, p1, p2) = <<>> THEN
                        /\ Return(w, Val(ErrNone, <<>>))
                        /\ UNCHANGED mutex
                    ELSE
                        /\ mutex' = [mutex EXCEPT ![f.nt] = RLockedInChildren(@)]
                        /\ stack' = [stack EXCEPT ![w] =
                              Append(WithTop(@, [f EXCEPT !.pc = "ret_child", !.i = 1]),
                                     Frame("Search", SearchKids(node, p1, p2)[1], f.arg, "rlock"))]
                        /\ hist' = [hist EXCEPT ![w] = Seen(w)]
                        /\ UNCHANGED <<ret, status, fresh>>
             ELSE
                 /\ Return(w, Val(ErrNone, <<>>))
                 /\ UNCHANGED mutex
    /\ UNCHANGED <<nodes, failed, lost, calls, overlap>>

\* p, err := child.Search(p1, p2) returned: return the error, or append and go
\* on with the next child; after the last child RUnlock and return points.
SearchAfterChild(w) ==
    /\ At(w, "Search", "ret_child")
    /\ LET f == Top(w)
           kids == SearchKids(nodes[f.nt], QueryP1(f.arg), QueryP2(f.arg))
           points == f.acc \o f.rv.points
       IN IF f.rv.err # ErrNone THEN
              /\ mutex' = [mutex EXCEPT ![f.nt].readers = @ - 1]
              /\ Return(w, Val(f.rv.err, <<>>))
          ELSE IF f.i < Len(kids) THEN
              /\ stack' = [stack EXCEPT ![w] =
                    Append(WithTop(@, [f EXCEPT !.i = @ + 1, !.acc = points, !.rv = NoVal]),
                           Frame("Search", kids[f.i + 1], f.arg, "rlock"))]
              /\ UNCHANGED <<mutex, ret, status, fresh, hist>>
          ELSE
              /\ mutex' = [mutex EXCEPT ![f.nt].readers = @ - 1]
              /\ Return(w, Val(ErrNone, points))
    /\ UNCHANGED <<nodes, failed, lost, calls, overlap>>

\* ------------------------------------------------------------------ Iter
\* The nodes Iter is called on: the root and its first child.
IterNodes == {Root, <<0>>}

\* A worker calls Iter(f) on an allocated node; f records the node it is given.
CallIter(w, nt) ==
    /\ CanCall(w)
    /\ calls < MaxCalls
    /\ calls' = calls + 1
    /\ nt \in DOMAIN nodes
    /\ stack' = [stack EXCEPT ![w] = <<Frame("Iter", nt, 0, "lock")>>]
    /\ ret' = NoRet
    /\ fresh' = [fresh EXCEPT ![w] = ~AddInFlight]
    /\ UNCHANGED <<nodes, mutex, status, overlap, failed, lost, hist>>

\* nt.mutex.Lock()
IterLock(w) ==
    /\ At(w, "Iter", "lock")
    /\ CanLock(Top(w).nt)
    /\ IF mutex[Top(w).nt].readers = 0
         THEN /\ mutex' = [mutex EXCEPT ![Top(w).nt].writer = "held"]
              /\ stack' = [stack EXCEPT ![w] = WithTop(@, [Top(w) EXCEPT !.pc = "visit"])]
         ELSE /\ mutex' = [mutex EXCEPT ![Top(w).nt].writer = "pending"]
              /\ stack' = [stack EXCEPT ![w] = WithTop(@, [Top(w) EXCEPT !.pc = "lockwait"])]
    /\ UNCHANGED <<nodes, ret, status, fresh, hist, failed, lost, calls, overlap>>

IterLockWait(w) ==
    /\ At(w, "Iter", "lockwait")
    /\ mutex[Top(w).nt].readers = 0
    /\ mutex' = [mutex EXCEPT ![Top(w).nt].writer = "held"]
    /\ stack' = [stack EXCEPT ![w] = WithTop(@, [Top(w) EXCEPT !.pc = "visit"])]
    /\ UNCHANGED <<nodes, ret, status, fresh, hist, failed, lost, calls, overlap>>

\* Iter that also goes through the children of the first child (mutant).
IterTargetsDeep(nt) ==
    <<nt>> \o nodes[nt].children \o
        (IF nodes[nt].children # <<>> /\ nodes[nt].children[1] # NilNode
           THEN nodes[nodes[nt].children[1]].children ELSE <<>>)

\* The nodes Iter hands to f, in order: nt, then nt.children[0], [1], ...
IterTargets(nt) == <<nt>> \o nodes[nt].children

\* One call of f.
IterVisit(w) ==
    /\ At(w, "Iter", "visit")
    /\ Top(w).i < Len(IterTargets(Top(w).nt))
    /\ stack' = [stack EXCEPT ![w] = WithTop(@,
            [Top(w) EXCEPT !.i = @ + 1, !.acc = Append(@, IterTargets(Top(w).nt)[Top(w).i + 1])])]
    /\ UNCHANGED <<nodes, mutex, ret, status, fresh, hist, failed, lost, calls, overlap>>

\* The loop is over: deferred Unlock, return.
IterReturn(w) ==
    /\ At(w, "Iter", "visit")
    /\ Top(w).i = Len(IterTargets(Top(w).nt))
    /\ mutex' = [mutex EXCEPT ![Top(w).nt] = FreeMutex]
    /\ Return(w, Val(ErrNone, Top(w).acc))
    /\ UNCHANGED <<nodes, failed, lost, calls, overlap>>

\* ------------------------------------------------------------------ Next
Step(w) ==
    \/ AddContains(w)
    \/ AddLock(w)
    \/ AddLockWait(w)
    \/ AddAfterChild(w)
    \/ AddAfterCur(w)
    \/ SearchNode(w)
    \/ SearchAfterChild(w)
    \/ IterLock(w)
    \/ IterLockWait(w)
    \/ IterVisit(w)
    \/ IterReturn(w)

Next ==
    \/ \E w \in Workers, p \in AddInputs : CallAdd(w, p)
    \/ \E w \in Workers, q \in Queries : CallSearch(w, q)
    \/ \E w \in Workers, nt \in IterNodes : CallIter(w, nt)
    \/ \E w \in Workers : AddContains(w)
    \/ \E w \in Workers : AddLock(w)
    \/ \E w \in Workers : AddLockWait(w)
    \/ \E w \in Workers : AddAfterChild(w)
    \/ \E w \in Workers : AddAfterCur(w)
    \/ \E w \in Workers : SearchNode(w)
    \/ \E w \in Workers : SearchAfterChild(w)
    \/ \E w \in Workers : IterLock(w)
    \/ \E w \in Workers : IterLockWait(w)
    \/ \E w \in Workers : IterVisit(w)
    \/ \E w \in Workers : IterReturn(w)

Spec == Init /\ [][Next]_vars

\* The same program, with the history of the Searches kept.
ObsSpec == ObsInit /\ [][Next]_vars

\* Every goroutine that can run is eventually scheduled (the Go scheduler); the
\* callers are free to issue no further call.
FairSpec == Spec /\ \A w \in Workers : WF_vars(Step(w))

\* ------------------------------------------------- trees of other shapes
\* One goroutine adds the points, one call after the other, to a tree of 1, 2
\* or 63 dimensions whose center and bounds (the same in every dimension) are
\* drawn from the sets below, in units of 2^-1074.
GeomDims == {1, 2, MaxN}
GeomCenters == {-2, -1, 0, 1}
GeomBounds == {1, 2, 3, 4, 5}
GeomRoots ==
    {[center |-> [j \in 1..n |-> c], bounds |-> [j \in 1..n |-> b]] :
        n \in GeomDims, c \in GeomCenters, b \in GeomBounds}

\* The state after nt, err := New(center, bounds) returned a tree.
GeomInit ==
    /\ \E g \in GeomRoots :
          /\ NewErr(g.center, g.bounds) = ErrNone
          /\ nodes = (Root :> NewNode(g.center, g.bounds))
    /\ mutex = (Root :> FreeMutex)
    /\ stack = [w \in Workers |-> <<>>]
    /\ ret = NoRet
    /\ status = [p \in ValidPoints |-> "unused"]
    /\ fresh = [w \in Workers |-> FALSE]
    /\ calls = 0
    /\ overlap = FALSE
    /\ failed = {}
    /\ lost = {}
    /\ hist = [w \in Workers |-> NoHist(FALSE)]

\* Add(p) is called when the call before it has returned.
GeomCallAdd(w, p) ==
    /\ \A v \in Workers : ~Busy(v)
    /\ CallAdd(w, p)

GeomNext ==
    \/ \E w \in Workers, p \in ValidPoints : GeomCallAdd(w, p)
    \/ \E w \in Workers : AddContains(w)
    \/ \E w \in Workers : AddLock(w)
    \/ \E w \in Workers : AddAfterChild(w)
    \/ \E w \in Workers : AddAfterCur(w)

GeomSpec == GeomInit /\ [][GeomNext]_vars

\* -------------------------------------------------------------------- New
\* The arguments New is called with: a center of n zeros, n from 0 to 64, and
\* bounds of n-1, n or n+1 entries, all 1 except the first or the last, which
\* is -1, 0, 1 or 2.
NewLens == 0..(MaxN + 1)
NewBoundValues == {-1, 0, 1, 2}
NewCenter(n) == [j \in 1..n |-> 0]
NewBounds(m, k, b) == [j \in 1..m |-> IF j = k THEN b ELSE 1]
NoTree == [nt \in {} |-> 0]

\* No tree has been made yet.
NewInit ==
    /\ nodes = NoTree
    /\ mutex = NoTree
    /\ stack = [w \in Workers |-> <<>>]
    /\ ret = NoRet
    /\ status = [p \in ValidPoints |-> "unused"]
    /\ fresh = [w \in Workers |-> FALSE]
    /\ calls = 0
    /\ overlap = FALSE
    /\ failed = {}
    /\ lost = {}
    /\ hist = [w \in Workers |-> NoHist(FALSE)]

\* nt, err := New(center, bounds): nodes holds the tree returned, if any.
CallNew(center, bounds) ==
    /\ ret' = [op |-> "New", nt |-> Root, arg |-> [center |-> center, bounds |-> bounds],
               val |-> Val(NewErr(center, bounds), <<>>), fresh |-> FALSE,
               known |-> {}, moved |-> {}, lost |-> {}]
    /\ nodes' = IF NewErr(center, bounds) = ErrNone
                  THEN (Root :> NewNode(center, bounds)) ELSE NoTree
    /\ mutex' = IF NewErr(center, bounds) = ErrNone THEN (Root :> FreeMutex) ELSE NoTree
    /\ UNCHANGED <<stack, status, fresh, calls, overlap, failed, lost, hist>>

NewNext ==
    \E n \in NewLens, b \in NewBoundValues :
        \E m \in {n - 1, n, n + 1} \cap NewLens :
            \E k \in {1, m} : CallNew(NewCenter(n), NewBounds(m, k, b))

NewSpec == NewInit /\ [][NewNext]_vars

\* --------------------------------------------------------- model sanity
\* A children slice with a nil entry belongs to a node whose mutex is held, so
\* no call dereferences a nil child.
NilChildIsLocked ==
    \A nt \in DOMAIN nodes :
        (\E k \in 1..Len(nodes[nt].children) : nodes[nt].children[k] = NilNode)
            => mutex[nt].writer = "held"
TypeOK ==
    /\ DOMAIN mutex = DOMAIN nodes
    /\ \A nt \in DOMAIN nodes : nodes[nt].count >= 0 /\ mutex[nt].readers >= 0
    /\ calls \in 0..MaxCalls

\* ------------------------------------------------------- claim vocabulary
Offered == {p \in ValidPoints : status[p] # "unused"}
Inserted == {p \in ValidPoints : status[p] = "ok"}
NoAddFailed == \A p \in ValidPoints : status[p] # "err"
\* The points offered so far have pairwise distinct coordinates.
DistinctOffered == \A p, q \in Offered : p # q => Coords(p) # Coords(q)
\* p lies in the closed box of query q.
InBox(p, q) ==
    \A i \in 1..Len(Coords(p)) :
        QueryP1(q)[i] <= Coords(p)[i] /\ Coords(p)[i] <= QueryP2(q)[i]
\* seq lists every element of S exactly once.
Listing(seq, S) == Len(seq) = Cardinality(S) /\ {seq[i] : i \in 1..Len(seq)} = S
\* A Search of box q has just returned, and no Add was in flight from its call on.
SearchReturned(q) == ret.op = "Search" /\ ret.arg = q /\ ret.fresh

\* Number of points stored in the subtree of nt.
RECURSIVE StoredFrom(_, _)
RECURSIVE Stored(_)
StoredFrom(kids, k) ==
    IF k > Len(kids) THEN 0
    ELSE (IF kids[k] = NilNode THEN 0 ELSE Stored(kids[k])) + StoredFrom(kids, k + 1)
Stored(nt) == (IF nodes[nt].p = NilPoint THEN 0 ELSE 1) + StoredFrom(nodes[nt].children, 1)

\* nt is a or lies below a.
Below(a, nt) == Len(nt) >= Len(a) /\ SubSeq(nt, 1, Len(a)) = a
Subtree(a) == {nt \in DOMAIN nodes : Below(a, nt)}

\* The call at the bottom of w's stack was given valid arguments.
ValidCall(w) ==
    \/ stack[w][1].op = "Add" /\ stack[w][1].arg \in ValidPoints
    \/ stack[w][1].op = "Search" /\ stack[w][1].arg # BadQuery
InvalidCall(w) ==
    \/ stack[w][1].op = "Add" /\ stack[w][1].arg \notin ValidPoints
    \/ stack[w][1].op = "Search" /\ stack[w][1].arg = BadQuery
\* The error an invalid call has to return.
ExpectedErr(f) ==
    IF f.op = "Search" THEN ErrSearchDim
    ELSE IF f.arg = NilPoint THEN ErrNilPoint
    ELSE IF f.arg = BadDimPoint THEN ErrPointDim
    ELSE ErrOutside

\* w's next step does not wait for a mutex.
CanStep(w) ==
    /\ Busy(w)
    /\ Top(w).pc \in {"contains", "rlock", "lock"} => mutex[Top(w).nt].writer = "free"
    /\ Top(w).pc = "lockwait" => mutex[Top(w).nt].readers = 0

\* ------------------------------------------------------------------ C1
\* C1: once every Add of pairwise distinct in-bounds points has
\* returned, every Add returned nil, and a Search of the full volume returns
\* exactly the points offered, each once.
C1_AllAddsSucceedAndAreFound ==
    (~AddInFlight /\ DistinctOffered) =>
        /\ \A p \in Offered : status[p] = "ok"
        /\ SearchReturned(FullQuery) =>
               ret.val.err = ErrNone /\ Listing(ret.val.points, Offered)

\* ------------------------------------------------------------------ C2
\* C2: a Search of a box p1 <= p2 that runs with no Add in flight returns nil
\* error and exactly the inserted points lying in the closed box, each once.
C2_SearchExact ==
    (ret.op = "Search" /\ ret.arg # BadQuery /\ ret.fresh) =>
        /\ ret.val.err = ErrNone
        /\ Listing(ret.val.points, {p \in Inserted : InBox(p, ret.arg)})

\* A Search of the partial box returned some but not all of the points of a
\* tree that was split twice on the way to a leaf.
C2_Witness ==
    /\ SearchReturned(PartQuery)
    /\ ret.val.points # <<>>
    /\ Len(ret.val.points) < Cardinality(Inserted)
    /\ \E nt \in DOMAIN nodes : Len(nt) = 2 /\ nodes[nt].p # NilPoint
    /\ \E k \in 1..Len(ret.val.points) : \E i \in 1..Len(RootCenter) :
            Coords(ret.val.points[k])[i] = QueryP1(PartQuery)[i]
                \/ Coords(ret.val.points[k])[i] = QueryP2(PartQuery)[i]

\* ------------------------------------------------------------------ C3
\* C3: whenever no Add is in flight and every Add so far returned nil, the
\* root's count is the number of points inserted and every node's count is the
\* number of points stored in its subtree.
C3_CountsExact ==
    (~AddInFlight /\ NoAddFailed) =>
        /\ nodes[Root].count = Cardinality(Inserted)
        /\ \A nt \in DOMAIN nodes : nodes[nt].count = Stored(nt)

\* Three points are in after overlapping Adds and a nested split.
C3_Witness ==
    /\ ~AddInFlight /\ NoAddFailed /\ overlap
    /\ nodes[Root].count = 3
    /\ \E nt \in DOMAIN nodes : Len(nt) = 2 /\ nodes[nt].p # NilPoint

\* ------------------------------------------------------------------ C4
\* C4: among Add and Search calls with valid arguments (points of pairwise
\* distinct coordinates), there is no state in which calls are unfinished and
\* every unfinished call waits for a node's mutex.
C4_NoCallBlockedForever ==
    (DistinctOffered /\ \A w \in Workers : Busy(w) => ValidCall(w)) =>
        ((\E w \in Workers : Busy(w)) => \E w \in Workers : CanStep(w))

\* ------------------------------------------------------------------ C5
\* C5: an Add of a nil, wrong-dimension or out-of-bounds point and a Search
\* with a vector of the wrong length return at their first step, with the
\* matching error, and leave point, children and count of every node as they were.
C5_InvalidCallsChangeNothing ==
    [][\A w \in Workers :
        (Busy(w) /\ InvalidCall(w) /\ stack'[w] # stack[w]) =>
            /\ nodes' = nodes
            /\ stack'[w] = <<>>
            /\ ret'.val.err = ExpectedErr(stack[w][1])]_vars

\* An out-of-bounds Add was refused by a tree that holds points in children.
C5_Witness ==
    /\ ret.op = "Add" /\ ret.arg = OutPoint /\ ret.val.err = ErrOutside
    /\ nodes[Root].children # <<>> /\ nodes[Root].count >= 2

\* ------------------------------------------------------------------ C6
\* C6: a node whose split failed in New is as it was before the split: it holds
\* its point, has no children, and its count is unchanged.
C6_FailedSplitLeavesNode ==
    \A f \in failed :
        /\ nodes[f.nt].p = f.before.p
        /\ nodes[f.nt].children = <<>>
        /\ nodes[f.nt].count = f.before.count

\* ------------------------------------------------------------------ C7
\* C7: every Add call eventually returns.
C7_AddReturns == \A w \in Workers : InAdd(w) ~> ~InAdd(w)

\* ------------------------------------------------------------------ C8
\* C8: the count a reader can see at a node (the mutex not write-held) never
\* decreases from one state to the next.
C8_CountNeverDecreases ==
    [][\A nt \in DOMAIN nodes :
        (mutex[nt].writer # "held" /\ mutex'[nt].writer # "held") =>
            nodes'[nt].count >= nodes[nt].count]_vars

\* ------------------------------------------------------------------ C9
\* C9: a node whose mutex is not held exclusively never has both a stored
\* point and a non-nil children slice.
C9_NeverPointAndChildren ==
    \A nt \in DOMAIN nodes :
        mutex[nt].writer # "held" =>
            ~(nodes[nt].p # NilPoint /\ nodes[nt].children # <<>>)

\* The window of a split: the node has its new children, its mutex is free, and
\* the Add that split it has not yet started to re-add the point it took out.
C9_Witness ==
    \E w \in Workers :
        /\ Len(stack[w]) >= 2
        /\ stack[w][Len(stack[w]) - 1].pc = "ret_cur"
        /\ Top(w).pc = "contains"
        /\ mutex[Top(w).nt].writer = "free"
        /\ nodes[Top(w).nt].children # <<>>
        /\ nodes[Top(w).nt].p = NilPoint

\* ----------------------------------------------------------------- C10
\* C10: Iter(f) on a node runs f on every node of the tree rooted at that node.
C10_IterVisitsWholeSubtree ==
    (ret.op = "Iter" /\ ret.fresh) =>
        {ret.val.points[k] : k \in 1..Len(ret.val.points)} = Subtree(ret.nt)

\* ----------------------------------------------------------------- C11
\* C11: Iter(f) on a node calls f once on the node, then once on each of its
\* immediate children in slice order, and on no other node; from the first call
\* of f to the last the node's mutex is held exclusively (so the children it
\* goes through are the children the node has).
C11_IterOneLevelUnderLock ==
    /\ \A w \in Workers :
          At(w, "Iter", "visit") =>
              /\ mutex[Top(w).nt].writer = "held"
              /\ mutex[Top(w).nt].readers = 0
              /\ Top(w).i <= 1 + Len(nodes[Top(w).nt].children)
              /\ Top(w).acc = SubSeq(<<Top(w).nt>> \o nodes[Top(w).nt].children, 1, Top(w).i)
    /\ ret.op = "Iter" =>
          /\ ret.val.points \in {<<ret.nt>>, <<ret.nt>> \o nodes[ret.nt].children}
          /\ ret.fresh => ret.val.points = <<ret.nt>> \o nodes[ret.nt].children

\* Iter has returned from the root of a tree whose first child has children of
\* its own: f was called on the root and on its four children.
C11_Witness ==
    /\ ret.op = "Iter" /\ ret.nt = Root /\ ret.fresh
    /\ Len(ret.val.points) = 1 + Len(nodes[Root].children)
    /\ Len(nodes[Root].children) = 4
    /\ nodes[nodes[Root].children[1]].children # <<>>

\* ----------------------------------------------------------------- C12
\* C12: Contains(p), for a non-nil point of the node's dimension, answers true
\* if and only if center[i]-bounds[i] <= p.Coords[i] <= center[i]+bounds[i] in
\* every dimension i, the two ends included.  (Add goes on to Lock exactly when
\* Contains answered true.)
C12_ContainsIffWithinEnds ==
    [][\A w \in Workers :
        (At(w, "Add", "contains") /\ Top(w).arg \in ValidPoints /\ stack'[w] # stack[w]) =>
            LET node == nodes[Top(w).nt]
                c == Coords(Top(w).arg)
            IN (Len(stack'[w]) = Len(stack[w]) /\ stack'[w][Len(stack[w])].pc = "lock")
                 <=> \A i \in 1..Len(c) :
                        /\ node.center[i] - node.bounds[i] <= c[i]
                        /\ c[i] <= node.center[i] + node.bounds[i]]_vars

\* Contains has answered true at a node below the root for a point one of whose
\* coordinates equals the upper end center+bounds of the node.
C12_Witness ==
    \E w \in Workers :
        /\ At(w, "Add", "lock") /\ Top(w).nt # Root
        /\ \E i \in 1..Len(nodes[Top(w).nt].center) :
              Coords(Top(w).arg)[i] = nodes[Top(w).nt].center[i] + nodes[Top(w).nt].bounds[i]

\* ----------------------------------------------------------------- C13
\* C13: New(center, bounds) returns an error if and only if the two lengths
\* differ, or the length is 0 or above 63, or some bound is <= 0; otherwise it
\* returns a node with no point, no children and count 0 whose N() is
\* len(center).
C13_NewErrorsExactly ==
    ret.op = "New" =>
        LET center == ret.arg.center
            bounds == ret.arg.bounds
        IN /\ ret.val.err # ErrNone <=>
                  \/ Len(center) # Len(bounds)
                  \/ Len(center) = 0
                  \/ Len(center) > 63
                  \/ \E i \in 1..Len(bounds) : bounds[i] <= 0
           /\ ret.val.err # ErrNone => Root \notin DOMAIN nodes
           /\ ret.val.err = ErrNone =>
                  /\ Root \in DOMAIN nodes
                  /\ nodes[Root].p = NilPoint
                  /\ nodes[Root].children = <<>>
                  /\ nodes[Root].count = 0
                  /\ N(nodes[Root]) = Len(center)
                  /\ N(nodes[Root]) \in 1..63

\* New has returned a tree of 63 dimensions.
C13_Witness ==
    /\ ret.op = "New" /\ ret.val.err = ErrNone
    /\ Root \in DOMAIN nodes /\ N(nodes[Root]) = 63

\* ----------------------------------------------------------------- C14
\* In some dimension the node's interval lies entirely below p1 or entirely
\* above p2.
Outside(node, p1, p2) ==
    \E i \in 1..Len(p1) :
        \/ node.center[i] + node.bounds[i] < p1[i]
        \/ node.center[i] - node.bounds[i] > p2[i]

\* C14: Search(p1, p2) is never invoked on a child whose hyper-rectangle does
\* not intersect [p1, p2], nor on a descendant of such a child: no Search is in
\* progress on a node below the root that lies outside the box.
C14_DisjointChildrenSkipped ==
    \A w \in Workers : \A k \in 2..Len(stack[w]) :
        (stack[w][k].op = "Search" /\ stack[w][k].arg # BadQuery) =>
            ~Outside(nodes[stack[w][k].nt], QueryP1(stack[w][k].arg), QueryP2(stack[w][k].arg))

\* ----------------------------------------------------------------- C15
\* C15: an Add that has descended from an internal node into the
\* addressed child has released the internal node's lock: while the call into
\* the child is in progress, the internal node's mutex is not held exclusively,
\* so the Add never holds the exclusive locks of two nodes.
C15_AddReleasesBeforeDescending ==
    \A w \in Workers : \A k \in 1..Len(stack[w]) :
        (stack[w][k].op = "Add" /\ stack[w][k].pc = "ret_child") =>
            mutex[stack[w][k].nt].writer # "held"

\* ----------------------------------------------------------------- C16
\* C16: a Search holds a node's shared lock only while it examines
\* the node itself: while it is in the call of Search on a child, it holds no
\* read lock on the parent (nobody else reads a node for longer than one step).
C16_SearchReleasesBeforeDescending ==
    \A w \in Workers : \A k \in 1..Len(stack[w]) :
        (stack[w][k].op = "Search" /\ stack[w][k].pc = "ret_child") =>
            mutex[stack[w][k].nt].readers = 0

\* ----------------------------------------------------------------- C17
\* len = 2^n
RECURSIVE IsPow2(_, _)
IsPow2(len, n) == IF n = 0 THEN len = 1 ELSE len % 2 = 0 /\ IsPow2(len \div 2, n - 1)

\* C17: a node of dimension N that has children has exactly 2^N of them, none
\* nil, and child i has bounds[j] = the parent's bounds[j] / 2 and center[j] =
\* the parent's center[j] plus its own bounds[j] if bit j of i is set, minus it
\* otherwise.  (Stated for the nodes whose mutex is not held exclusively: a
\* node whose mutex is held is in a split or was left by a failed one.)
C17_ChildrenGeometry ==
    \A nt \in DOMAIN nodes :
        (nodes[nt].children # <<>> /\ mutex[nt].writer # "held") =>
            /\ IsPow2(Len(nodes[nt].children), N(nodes[nt]))
            /\ \A k \in 1..Len(nodes[nt].children) :
                  /\ nodes[nt].children[k] # NilNode
                  /\ \A j \in 1..N(nodes[nt]) :
                        LET child == nodes[nodes[nt].children[k]] IN
                        /\ child.bounds[j] = Half(nodes[nt].bounds[j])
                        /\ child.center[j] =
                              IF hasBit(k - 1, j - 1)
                                THEN nodes[nt].center[j] + child.bounds[j]
                                ELSE nodes[nt].center[j] - child.bounds[j]

\* ----------------------------------------------------------------- C18
\* The coordinates c lie within center +- bounds of the node, ends included.
Within(node, c) ==
    \A i \in 1..Len(c) :
        node.center[i] - node.bounds[i] <= c[i] /\ c[i] <= node.center[i] + node.bounds[i]

\* C18: for every internal node and every point it contains, the child Add
\* selects contains the point; no Add called on a child fails the bounds check;
\* and every stored point lies within the bounds of the node that holds it and
\* of every ancestor of that node.
C18_SelectedChildContains ==
    /\ \A nt \in DOMAIN nodes : \A p \in ValidPoints :
          (/\ nodes[nt].children # <<>>
           /\ \A k \in 1..Len(nodes[nt].children) : nodes[nt].children[k] # NilNode
           /\ Within(nodes[nt], Coords(p))
           /\ IndexInRange(nodes[nt], p)) =>
              Within(nodes[nodes[nt].children[Target(nodes[nt], p) + 1]], Coords(p))
    /\ \A w \in Workers : \A k \in 1..Len(stack[w]) :
          (stack[w][k].op = "Add" /\ stack[w][k].pc \in {"ret_child", "ret_cur"}) =>
              stack[w][k].rv.err # ErrOutside
    /\ \A nt \in DOMAIN nodes : \A a \in DOMAIN nodes :
          (nodes[nt].p # NilPoint /\ Below(a, nt)) => Within(nodes[a], Coords(nodes[nt].p))

\* ----------------------------------------------------------------- C19
\* The points a returned Search handed back.
Found == {ret.val.points[k] : k \in 1..Len(ret.val.points)}

\* C19 (as claimed): a Search on the root, whatever Adds run beside it, returns
\* every point of the box whose Add had returned nil before the Search was
\* called, and returns no point twice.
C19_SearchSeesEarlierAdds ==
    (ret.op = "Search" /\ ret.arg # BadQuery) =>
        /\ ret.val.err = ErrNone
        /\ Len(ret.val.points) = Cardinality(Found)
        /\ \A p \in ret.known : InBox(p, ret.arg) => p \in Found

\* C19 (amended): a Search on the root, whatever Adds run beside it, returns
\* no point twice and only points given to Add that lie in the box; of the
\* points of the box whose Add had returned nil before the Search was called it
\* returns all but these, which it does not return: the point which the split
\* of the root has taken out of the root and not yet stored again at the moment
\* the Search takes the root's read lock, and the points which the re-add of a
\* split has failed to store.  A split below the root is never open while the
\* root's mutex can be read-locked: the Add in it holds the root's lock.
C19_SearchSeesStoredAdds ==
    /\ (ret.op = "Search" /\ ret.arg # BadQuery) =>
          /\ ret.val.err = ErrNone
          /\ Len(ret.val.points) = Cardinality(Found)
          /\ \A p \in Found : p \in Offered /\ InBox(p, ret.arg)
          /\ \A p \in ret.known :
                InBox(p, ret.arg) => (p \in Found <=> p \notin ret.moved \cup ret.lost)
    /\ \A nt \in DOMAIN nodes :
          (nt # Root /\ Displaced(nt) # {}) => mutex[Root] = HeldMutex

\* A Search has returned that took the root's read lock after an Add had split
\* the root and before that Add's re-add of the root's point: it did not return
\* that point, added before, and returned another point added before, which a
\* third Add had stored in a child meanwhile.
C19_Witness ==
    /\ ret.op = "Search" /\ ret.arg = FullQuery /\ ~ret.fresh
    /\ \E p \in ret.known \cap ret.moved : InBox(p, ret.arg) /\ p \notin Found
    /\ \E p \in ret.known \ ret.moved : p \in Found

\* A Search has returned without a point of the box added before it was called,
\* which the re-add of a split had failed to store.
LostPointMissed ==
    /\ ret.op = "Search" /\ ret.arg = FullQuery
    /\ \E p \in ret.known \cap ret.lost : InBox(p, ret.arg) /\ p \notin Found

\* ----------------------------------------------------------------- C20
\* C20: every lock a call acquired is released when the call has returned:
\* whenever no call is in progress, no node's mutex is held, for writing or for
\* reading, and no writer waits for one.
C20_NoLockOutlivesItsCall ==
    (\A w \in Workers : ~Busy(w)) => \A nt \in DOMAIN nodes : mutex[nt] = FreeMutex
====
